---- MODULE Spec2Model ----
(***************************************************************************)
(* Model of the noise-image processor: the seeded LCG (SeededRandom), the  *)
(* noise-field generators, the luminance scaler, the per-pixel compositor  *)
(* (applyNoise), configuration validation and the CLI / batch driver.      *)
(*                                                                         *)
(* Number representation.                                                  *)
(*  - Integers that exceed 31 bits (LCG states, seeds, Date.now()) are     *)
(*    little-endian sequences of 16-bit limbs.  A JavaScript double holds  *)
(*    an integer exactly only up to 53 significant bits; Round53 rounds    *)
(*    the way IEEE-754 round-to-nearest-even does.                         *)
(*  - Real-valued JavaScript numbers (config fields, Gaussian samples,     *)
(*    noise values, pixel sums) are records [k, v]: k = "num" with v the   *)
(*    value in thousandths, k = "inf" with v = 1 / -1 for +/-Infinity,     *)
(*    k = "nan" for NaN.  ln, sqrt and cos are fixed-point approximations  *)
(*    at this resolution; the non-finite cases are exact.                  *)
(***************************************************************************)
EXTENDS Integers, Sequences, FiniteSets, TLC

(***************************************************************************)
(* Multi-limb non-negative integers                                        *)
(***************************************************************************)
Limb == 65536

\* every multi-limb number is a tuple of six limbs (96 bits)
Pow2(k) == 2 ^ k

\* the number n < 65536 * 65536 given by its two low limbs
Wide(lo, hi) == <<lo, hi, 0, 0, 0, 0>>

\* propagate carries through six non-negative partial sums
Norm(r) ==
  LET s1 == r[1]
      s2 == r[2] + s1 \div Limb
      s3 == r[3] + s2 \div Limb
      s4 == r[4] + s3 \div Limb
      s5 == r[5] + s4 \div Limb
      s6 == r[6] + s5 \div Limb
  IN  <<s1 % Limb, s2 % Limb, s3 % Limb, s4 % Limb, s5 % Limb, s6 % Limb>>

IsZero(x) == x = <<0, 0, 0, 0, 0, 0>>

RECURSIVE BitLen16(_)
BitLen16(n) == IF n = 0 THEN 0 ELSE 1 + BitLen16(n \div 2)

RECURSIVE TopLimb(_, _)
TopLimb(x, i) == IF i = 0 THEN 0 ELSE IF x[i] # 0 THEN i ELSE TopLimb(x, i - 1)

\* number of significant bits of x
BitLen(x) ==
  LET t == TopLimb(x, 6)
  IN  IF t = 0 THEN 0 ELSE 16 * (t - 1) + BitLen16(x[t])

\* bit j (0 = least significant) of x
Bit(x, j) == (x[(j \div 16) + 1] \div Pow2(j % 16)) % 2

\* limb i of x with the k low bits of x cleared
ClearLimb(x, k, i) ==
  IF i - 1 < k \div 16 THEN 0
  ELSE IF i - 1 = k \div 16 THEN (x[i] \div Pow2(k % 16)) * Pow2(k % 16)
  ELSE x[i]

\* x with its k low bits cleared
ClearLow(x, k) ==
  <<ClearLimb(x, k, 1), ClearLimb(x, k, 2), ClearLimb(x, k, 3),
    ClearLimb(x, k, 4), ClearLimb(x, k, 5), ClearLimb(x, k, 6)>>

\* limb i of 2^k
Pow2Limb(k, i) == IF i - 1 = k \div 16 THEN Pow2(k % 16) ELSE 0

\* x + 2^k
AddPow2(x, k) ==
  Norm(<<x[1] + Pow2Limb(k, 1), x[2] + Pow2Limb(k, 2), x[3] + Pow2Limb(k, 3),
         x[4] + Pow2Limb(k, 4), x[5] + Pow2Limb(k, 5), x[6] + Pow2Limb(k, 6)>>)

\* some bit below position k is set
AnyLow(x, k) == \E j \in 0..(k - 1) : Bit(x, j) = 1

\* x rounded to a multiple of 2^k: to nearest, ties to the even multiple
RoundAt(x, k) ==
  IF k <= 0 THEN x
  ELSE IF Bit(x, k - 1) = 1 /\ (AnyLow(x, k - 1) \/ Bit(x, k) = 1)
  THEN AddPow2(ClearLow(x, k), k)
  ELSE ClearLow(x, k)

\* IEEE-754 double: an integer keeps 53 significant bits, round to nearest,
\* ties to even
Round53(x) == RoundAt(x, BitLen(x) - 53)

\* x < 2^32
IsUint32(x) == x[3] = 0 /\ x[4] = 0 /\ x[5] = 0 /\ x[6] = 0

(***************************************************************************)
(* JavaScript numbers in thousandths                                       *)
(***************************************************************************)
Milli == 1000

Num(v) == [k |-> "num", v |-> v]
NaN == [k |-> "nan", v |-> 0]
PInf == [k |-> "inf", v |-> 1]
NInf == [k |-> "inf", v |-> -1]

IsNaN(a) == a.k = "nan"
IsFinite(a) == a.k = "num"

Sgn(n) == IF n > 0 THEN 1 ELSE IF n < 0 THEN -1 ELSE 0

\* n / d rounded to nearest
RoundDiv(n, d) == (n + d \div 2) \div d

\* a * b
JMul(a, b) ==
  IF IsNaN(a) \/ IsNaN(b) THEN NaN
  ELSE IF a.k = "inf" \/ b.k = "inf"
       THEN IF Sgn(a.v) * Sgn(b.v) = 0 THEN NaN
            ELSE [k |-> "inf", v |-> Sgn(a.v) * Sgn(b.v)]
       ELSE Num(RoundDiv(a.v * b.v, Milli))

\* a + b
JAdd(a, b) ==
  IF IsNaN(a) \/ IsNaN(b) THEN NaN
  ELSE IF a.k = "inf" /\ b.k = "inf"
       THEN IF a.v = b.v THEN a ELSE NaN
       ELSE IF a.k = "inf" THEN a
       ELSE IF b.k = "inf" THEN b
       ELSE Num(a.v + b.v)

\* a < b  (false when either side is NaN)
JLt(a, b) ==
  /\ ~IsNaN(a)
  /\ ~IsNaN(b)
  /\ IF a.k = "inf" THEN a.v = -1 /\ ~(b.k = "inf" /\ b.v = -1)
     ELSE IF b.k = "inf" THEN b.v = 1
     ELSE a.v < b.v

JGt(a, b) == JLt(b, a)

\* Math.min / Math.max: NaN if either argument is NaN
JMin(a, b) == IF IsNaN(a) \/ IsNaN(b) THEN NaN ELSE IF JLt(b, a) THEN b ELSE a
JMax(a, b) == IF IsNaN(a) \/ IsNaN(b) THEN NaN ELSE IF JGt(b, a) THEN b ELSE a

\* Math.round: nearest integer, halves towards +Infinity
JRound(a) == IF IsFinite(a) THEN Num(((a.v + 500) \div Milli) * Milli) ELSE a

RECURSIVE SqrtSearch(_, _, _)
SqrtSearch(n, lo, hi) ==
  IF lo >= hi THEN lo
  ELSE LET mid == (lo + hi + 1) \div 2
       IN  IF mid * mid <= n THEN SqrtSearch(n, mid, hi)
           ELSE SqrtSearch(n, lo, mid - 1)

\* floor(sqrt(n)) for 0 <= n < 2^30
ISqrt(n) == SqrtSearch(n, 0, 32767)

\* sqrt of a value in thousandths, in thousandths
SqrtMilli(v) == ISqrt(v * Milli)

(***************************************************************************)
(* SeededRandom (linear congruential generator)                            *)
(***************************************************************************)
\* 1664525 = LcgMulHi * 65536 + LcgMulLo
LcgMulLo == 26125
LcgMulHi == 25

\* 1013904223 = LcgIncHi * 65536 + LcgIncLo
LcgIncLo == 62303
LcgIncHi == 15470

\* x * 1664525, exact (x < 2^64)
MulA(x) ==
  Norm(<<x[1] * LcgMulLo,
         x[2] * LcgMulLo + x[1] * LcgMulHi,
         x[3] * LcgMulLo + x[2] * LcgMulHi,
         x[4] * LcgMulLo + x[3] * LcgMulHi,
         x[5] * LcgMulLo + x[4] * LcgMulHi,
         x[6] * LcgMulLo + x[5] * LcgMulHi>>)

\* x + 1013904223, exact
AddC(x) == Norm(<<x[1] + LcgIncLo, x[2] + LcgIncHi, x[3], x[4], x[5], x[6]>>)

\* x % 4294967296 (exact on doubles)
Mod32(x) == <<x[1], x[2], 0, 0, 0, 0>>

\* x + n in double arithmetic, for a small n
PlusSmall(x, n) == Round53(Norm(<<x[1] + n, x[2], x[3], x[4], x[5], x[6]>>))

\* the reading of Date.now() at clock offset 0: 1730000000000 ms since the epoch
Epoch0 == <<5120, 52233, 402, 0, 0, 0>>

\* Date.now() when the clock stands at offset c
DateNow(c) == PlusSmall(Epoch0, c)

\* mutant: the constructor written with a truthiness test, seed ? seed : Date.now()
NewSeededRandomFalsy(seed, c) ==
  LET s0 == IF seed.k = "undefined" \/ IsZero(seed.v) THEN DateNow(c) ELSE seed.v
  IN  [init |-> s0, seed |-> s0, hist |-> <<>>]

\* new SeededRandom(seed): this.seed = seed ?? Date.now()
\* (seed is a seed record, see NoSeed / SeedInt below; only undefined is nullish)
\* hist records the state after every next() call of the instance
NewSeededRandom(seed, c) ==
  LET s0 == IF seed.k = "undefined" THEN DateNow(c) ELSE seed.v
  IN  [init |-> s0, seed |-> s0, hist |-> <<>>]

\* this.seed = (this.seed * 1664525 + 1013904223) % 4294967296, in doubles
NextState(s) == Mod32(Round53(AddC(Round53(MulA(s)))))

\* the same recurrence in exact integer arithmetic
ExactNextState(s) == Mod32(AddC(MulA(s)))

\* the instance after a next() call that stored s
Advance(rng, s) == [init |-> rng.init, seed |-> s, hist |-> Append(rng.hist, s)]

\* next(): advances the instance; the value returned is rng.seed / 2^32
Next1(rng) == Advance(rng, NextState(rng.seed))

\* significant bits of a state below 2^32
BitLen32(s) == IF s[2] > 0 THEN 16 + BitLen16(s[2]) ELSE BitLen16(s[1])

\* the 9 leading bits of a non-zero state below 2^32 (256..511)
Top9At(s, b) ==
  IF b <= 9 THEN s[1] * Pow2(9 - b)
  ELSE IF b - 9 >= 16 THEN s[2] \div Pow2(b - 25)
  ELSE s[2] * Pow2(25 - b) + s[1] \div Pow2(b - 9)

Top9(s) == Top9At(s, BitLen32(s))

\* log2(1 + f / 256) in thousandths: log2(1 + x) ~ x + 0.344 x (1 - x)
Log2Frac(f) == (f * Milli) \div 256 + (344 * f * (256 - f)) \div 65536

\* -Math.log(u) for u = s / 2^32, s # 0, in thousandths: (32 - log2 s) * ln 2
NegLnMilli(s) == (((33 - BitLen32(s)) * Milli - Log2Frac(Top9(s) - 256)) * 693) \div Milli

\* Math.cos(theta) for a quarter-turn fraction q / 256 (theta = q / 256 * pi / 2),
\* in thousandths: cos(theta) ~ (4 - 4 x^2) / (4 + x^2), x = q / 256
CosQuarter(q) == (Milli * (262144 - 4 * q * q)) \div (262144 + q * q)

\* Math.cos(2 * Math.PI * u) for u = s / 2^32, in thousandths
CosMilli(s) ==
  LET quad == s[2] \div 16384
      q    == (s[2] % 16384) \div 64
  IN  IF quad = 0 THEN CosQuarter(q)
      ELSE IF quad = 1 THEN -CosQuarter(256 - q)
      ELSE IF quad = 2 THEN -CosQuarter(q)
      ELSE CosQuarter(256 - q)

\* sign of Math.cos(2 * Math.PI * u): the double result is never exactly 0
CosSign(s) ==
  IF s[2] < 16384 \/ (s[2] = 16384 /\ s[1] = 0) THEN 1
  ELSE IF s[2] < 49152 \/ (s[2] = 49152 /\ s[1] = 0) THEN -1
  ELSE 1

\* z0 = Math.sqrt(-2 * Math.log(u1)) * Math.cos(2 * Math.PI * u2)
BoxMuller(s1, s2) ==
  IF IsZero(s1) THEN [k |-> "inf", v |-> CosSign(s2)]
  ELSE Num(RoundDiv(SqrtMilli(2 * NegLnMilli(s1)) * CosMilli(s2), Milli))

\* gaussian once u1 and u2 are drawn (r1, r2: the instance after each draw)
GaussianFrom(r1, r2, mean, stdDev) ==
  [rng |-> r2, val |-> JAdd(mean, JMul(BoxMuller(r1.seed, r2.seed), stdDev))]

\* gaussian after its first draw
GaussianAfter(r1, mean, stdDev) == GaussianFrom(r1, Next1(r1), mean, stdDev)

\* gaussian(mean, stdDev): two next() calls, then mean + z0 * stdDev;
\* the result carries the advanced instance
Gaussian(rng, mean, stdDev) == GaussianAfter(Next1(rng), mean, stdDev)

(***************************************************************************)
(* NoiseConfig, presets, createConfig, validateConfig                      *)
(***************************************************************************)
\* an absent optional number (seed, smoothing)
Absent == [k |-> "undefined", v |-> 0]

\* seeds: k = "undefined" | "int" (v = limbs) | "negint" | "frac" | "nan"
NoSeed == [k |-> "undefined", v |-> Wide(0, 0)]
SeedInt(x) == [k |-> "int", v |-> x]
SeedNaN == [k |-> "nan", v |-> Wide(0, 0)]
SeedNeg == [k |-> "negint", v |-> Wide(1, 0)]

Fields == {"intensity", "variance", "luminanceDependent", "microContrast", "seed", "smoothing"}

\* the presets: the four built-in ones, and two entries a preset.json may add
\* (its settings are NoiseConfig objects, so they may carry smoothing)
presets ==
  [subtle   |-> [intensity |-> Num(4), variance |-> Num(150),
                 luminanceDependent |-> TRUE, microContrast |-> Num(150)],
   normal   |-> [intensity |-> Num(8), variance |-> Num(250),
                 luminanceDependent |-> TRUE, microContrast |-> Num(200)],
   moderate |-> [intensity |-> Num(15), variance |-> Num(350),
                 luminanceDependent |-> TRUE, microContrast |-> Num(250)],
   flat     |-> [intensity |-> Num(6), variance |-> Num(50),
                 luminanceDependent |-> FALSE, microContrast |-> Num(100)],
   soft     |-> [intensity |-> Num(8), variance |-> Num(250),
                 luminanceDependent |-> TRUE, microContrast |-> Num(200),
                 smoothing |-> Num(500)],
   blur     |-> [intensity |-> Num(8), variance |-> Num(250),
                 luminanceDependent |-> TRUE, microContrast |-> Num(200),
                 smoothing |-> Num(1500)]]

\* { ...presets.normal, seed: undefined }
defaultConfig ==
  [f \in DOMAIN presets.normal \cup {"seed"} |->
     IF f = "seed" THEN NoSeed ELSE presets.normal[f]]

\* Object.assign(target, source) / { ...target, ...source }
Assign(target, source) ==
  [f \in DOMAIN target \cup DOMAIN source |->
     IF f \in DOMAIN source THEN source[f] ELSE target[f]]

\* createConfig(overrides) = { ...defaultConfig, ...overrides }
createConfig(overrides) == Assign(defaultConfig, overrides)

\* getPreset(name) = { ...presets[name] }
getPreset(name) == presets[name]

\* reading an optional field: undefined when the key is absent
Smoothing(config) == IF "smoothing" \in DOMAIN config THEN config.smoothing ELSE Absent

SeedDefined(seed) == seed.k # "undefined"
SeedNegative(seed) == seed.k = "negint"
SeedIsInteger(seed) == seed.k \in {"int", "negint"}
\* truthiness of config.seed: undefined, NaN and 0 are falsy
SeedTruthy(seed) ==
  /\ seed.k \in {"int", "negint", "frac"}
  /\ ~(seed.k = "int" /\ IsZero(seed.v))

\* validateConfig: "ok", or the message of the Error thrown
validateConfig(config) ==
  IF JLt(config.intensity, Num(0)) \/ JGt(config.intensity, Num(Milli))
  THEN "intensity must be between 0 and 1"
  ELSE IF JLt(config.variance, Num(0)) \/ JGt(config.variance, Num(Milli))
  THEN "variance must be between 0 and 1"
  ELSE IF JLt(config.microContrast, Num(0)) \/ JGt(config.microContrast, Num(Milli))
  THEN "microContrast must be between 0 and 1"
  ELSE IF SeedDefined(config.seed)
          /\ (SeedNegative(config.seed) \/ ~SeedIsInteger(config.seed))
  THEN "seed must be a positive integer or undefined"
  ELSE "ok"

(***************************************************************************)
(* Noise fields                                                            *)
(***************************************************************************)
RECURSIVE BitLenInt(_)
BitLenInt(n) == IF n = 0 THEN 0 ELSE 1 + BitLenInt(n \div 2)

Abs(n) == IF n < 0 THEN -n ELSE n

\* storing a double into a Float32Array: 24 significant bits are kept;
\* NaN and the infinities are kept as they are
Fround(a) ==
  IF ~IsFinite(a) \/ Abs(a.v) < 16777216 THEN a
  ELSE LET m == Pow2(BitLenInt(Abs(a.v)) - 24)
       IN  Num(Sgn(a.v) * RoundDiv(Abs(a.v), m) * m)

RECURSIVE SensorLoop(_, _, _, _, _)

\* noiseData[i] = baseNoise * varianceMultiplier, then the next iteration
\* (multiplier: the draw 1 + gaussian(0, variance), or the constant 1)
SensorStore(baseNoise, multiplier, i, pixelCount, config, noiseData) ==
  SensorLoop(multiplier.rng, i + 1, pixelCount, config,
             Append(noiseData, Fround(JMul(baseNoise.val, multiplier.val))))

\* 1 + draw
OnePlus(draw) == [rng |-> draw.rng, val |-> JAdd(Num(Milli), draw.val)]

\* mutant: the multiplier is drawn whatever the variance
SensorVaryAlways(baseNoise, i, pixelCount, config, noiseData) ==
  SensorStore(baseNoise, OnePlus(Gaussian(baseNoise.rng, Num(0), config.variance)),
              i, pixelCount, config, noiseData)

\* varianceMultiplier = config.variance > 0 ? 1 + rng.gaussian(0, config.variance) : 1
SensorVary(baseNoise, i, pixelCount, config, noiseData) ==
  IF JGt(config.variance, Num(0))
  THEN SensorStore(baseNoise, OnePlus(Gaussian(baseNoise.rng, Num(0), config.variance)),
                   i, pixelCount, config, noiseData)
  ELSE SensorStore(baseNoise, [rng |-> baseNoise.rng, val |-> Num(Milli)],
                   i, pixelCount, config, noiseData)

\* the loop of generateSensorNoiseMap, from pixel i on:
\* baseNoise = rng.gaussian(0, config.intensity), then the variance multiplier
SensorLoop(rng, i, pixelCount, config, noiseData) ==
  IF i >= pixelCount THEN [rng |-> rng, data |-> noiseData]
  ELSE SensorVary(Gaussian(rng, Num(0), config.intensity), i, pixelCount, config, noiseData)

\* generateSensorNoiseMap(width, height, config) called when the clock reads c;
\* the result carries the random stream so that its states can be inspected
generateSensorNoiseMap(width, height, config, c) ==
  SensorLoop(NewSeededRandom(config.seed, c), 0, width * height, config, <<>>)

\* channelMultipliers, in thousandths
ChannelMultR == 1000
ChannelMultG == 850
ChannelMultB == 1250
\* the per-channel scale 0.3, in thousandths
ChannelScale == 300

\* the loop of createChannelBuffer, from pixel i on
RECURSIVE ChannelLoop(_, _, _, _, _)
ChannelLoop(rng, i, pixelCount, channelIntensity, data) ==
  IF i >= pixelCount THEN [rng |-> rng, data |-> data]
  ELSE LET g == Gaussian(rng, Num(0), channelIntensity)
       IN  ChannelLoop(g.rng, i + 1, pixelCount, channelIntensity,
                       Append(data, Fround(g.val)))

\* createChannelBuffer(multiplier), drawing from rng
createChannelBuffer(rng, pixelCount, config, multiplier) ==
  ChannelLoop(rng, 0, pixelCount,
              JMul(JMul(config.intensity, Num(multiplier)), Num(ChannelScale)), <<>>)

\* the argument of the channel stream's constructor:
\* config.seed ? config.seed + 1 : undefined
ChannelSeed(config) ==
  IF SeedTruthy(config.seed) THEN SeedInt(PlusSmall(config.seed.v, 1)) ELSE NoSeed

\* mutant: the G field is filled before the R field
generateChannelNoiseGFirst(width, height, config, c) ==
  LET rng == NewSeededRandom(ChannelSeed(config), c)
      g == createChannelBuffer(rng, width * height, config, ChannelMultG)
      r == createChannelBuffer(g.rng, width * height, config, ChannelMultR)
      b == createChannelBuffer(r.rng, width * height, config, ChannelMultB)
  IN  [rng |-> b.rng, r |-> r.data, g |-> g.data, b |-> b.data]

\* generateChannelNoise(width, height, config) called when the clock reads c
generateChannelNoise(width, height, config, c) ==
  LET rng == NewSeededRandom(ChannelSeed(config), c)
      r == createChannelBuffer(rng, width * height, config, ChannelMultR)
      g == createChannelBuffer(r.rng, width * height, config, ChannelMultG)
      b == createChannelBuffer(g.rng, width * height, config, ChannelMultB)
  IN  [rng |-> b.rng, r |-> r.data, g |-> g.data, b |-> b.data]

\* mutant: the curve rises with the luminance (norm in place of 1 - norm)
getLuminanceNoiseScaleRising(luminance) ==
  IF ~IsFinite(luminance) THEN NaN
  ELSE LET norm == RoundDiv(luminance.v, 255)
           pow  == IF norm < 0 THEN NaN ELSE Num(RoundDiv(norm * SqrtMilli(norm), Milli))
       IN  JMax(Num(500), JMin(Num(2000), JAdd(Num(Milli), pow)))

\* getLuminanceNoiseScale(luminance): clamp(1 + (1 - luminance / 255) ^ 1.5, 0.5, 2)
getLuminanceNoiseScale(luminance) ==
  IF ~IsFinite(luminance) THEN NaN
  ELSE LET norm == RoundDiv(luminance.v, 255)
           x    == Milli - norm
           pow  == IF x < 0 THEN NaN ELSE Num(RoundDiv(x * SqrtMilli(x), Milli))
       IN  JMax(Num(500), JMin(Num(2000), JAdd(Num(Milli), pow)))

(***************************************************************************)
(* Pixel compositor                                                        *)
(***************************************************************************)
\* mutant: clamp without the upper bound
clampNoMax(value, min, max) == JMax(min, JRound(value))

\* clamp(value, min, max) = Math.max(min, Math.min(max, Math.round(value)))
clamp(value, min, max) == JMax(min, JMin(max, JRound(value)))

\* the byte a Buffer element holds after "buf[i] = x": ToUint8(x)
ToUint8(x) == IF IsFinite(x) THEN (x.v \div Milli) % 256 ELSE 0

\* buf[idx] read as a number; undefined (NaN in arithmetic) past the end
\* (idx counts from 0 as in the source)
ReadByte(buf, idx) == IF idx < Len(buf) THEN Num(buf[idx + 1] * Milli) ELSE NaN

\* buf[idx] = x; a store past the end of a Buffer is ignored
WriteByte(buf, idx, x) ==
  IF idx < Len(buf) THEN [buf EXCEPT ![idx + 1] = ToUint8(x)] ELSE buf

\* a Float32Array element; undefined (NaN in arithmetic) past the end
ReadFloat(arr, i) == IF i < Len(arr) THEN arr[i + 1] ELSE NaN

\* 0.2126 * r + 0.7152 * g + 0.0722 * b
Luminance(r, g, b) ==
  IF IsFinite(r) /\ IsFinite(g) /\ IsFinite(b)
  THEN Num(RoundDiv(2126 * (r.v \div Milli) + 7152 * (g.v \div Milli)
                    + 722 * (b.v \div Milli), 10))
  ELSE NaN

\* x * 255
Times255(x) == IF IsFinite(x) THEN Num(x.v * 255) ELSE x

\* mutant: the luminance scale is applied whatever config.luminanceDependent
ScaledBaseAlways(output, i, noiseFloat, config) ==
  JMul(ReadFloat(noiseFloat, i),
       getLuminanceNoiseScale(Luminance(ReadByte(output, 3 * i), ReadByte(output, 3 * i + 1),
                                        ReadByte(output, 3 * i + 2))))

\* mutant: the luminance is taken from the first pixel of the buffer
ScaledBaseFirstPixel(output, i, noiseFloat, config) ==
  IF config.luminanceDependent
  THEN JMul(ReadFloat(noiseFloat, i),
            getLuminanceNoiseScale(Luminance(ReadByte(output, 0), ReadByte(output, 1),
                                             ReadByte(output, 2))))
  ELSE ReadFloat(noiseFloat, i)

\* baseNoise of pixel i after the optional luminance scaling
ScaledBase(output, i, noiseFloat, config) ==
  LET r == ReadByte(output, 3 * i)
      g == ReadByte(output, 3 * i + 1)
      b == ReadByte(output, 3 * i + 2)
  IN  IF config.luminanceDependent
      THEN JMul(ReadFloat(noiseFloat, i), getLuminanceNoiseScale(Luminance(r, g, b)))
      ELSE ReadFloat(noiseFloat, i)

\* original + (baseNoise + channel noise) * 255 for channel ch (0, 1, 2) of pixel i
PixelSum(output, i, ch, noiseFloat, chFloat, config) ==
  JAdd(ReadByte(output, 3 * i + ch),
       Times255(JAdd(ScaledBase(output, i, noiseFloat, config), ReadFloat(chFloat, i))))

\* the pixel loop of applyNoise, from pixel i on
RECURSIVE PixelLoop(_, _, _, _, _, _)
PixelLoop(output, i, pixelCount, noiseFloat, ch, config) ==
  IF i >= pixelCount THEN output
  ELSE LET o1 == WriteByte(output, 3 * i,
                   clamp(PixelSum(output, i, 0, noiseFloat, ch.r, config), Num(0), Num(255000)))
           o2 == WriteByte(o1, 3 * i + 1,
                   clamp(PixelSum(output, i, 1, noiseFloat, ch.g, config), Num(0), Num(255000)))
           o3 == WriteByte(o2, 3 * i + 2,
                   clamp(PixelSum(output, i, 2, noiseFloat, ch.b, config), Num(0), Num(255000)))
       IN  PixelLoop(o3, i + 1, pixelCount, noiseFloat, ch, config)

\* applyNoise once both noise maps exist: copy the buffer, run the pixel loop
Composite(pixelData, width, height, noiseFloat, ch, config) ==
  PixelLoop(pixelData, 0, width * height, noiseFloat, ch, config)

\* outputImage.linear(a, b): every sample becomes a * sample + b, rounded and
\* saturated to a byte
Linear(buf, a, b) ==
  [j \in 1..Len(buf) |->
     ToUint8(clamp(JAdd(JMul(Num(buf[j] * Milli), a), b), Num(0), Num(255000)))]

\* mutant: >= in place of >
ContrastAppliedGe(config) ==
  JGt(config.microContrast, Num(0)) \/ config.microContrast = Num(0)

\* whether processImage applies the linear transform: config.microContrast > 0
ContrastApplied(config) == JGt(config.microContrast, Num(0))

\* mutant: the multiplier is 1 + microContrast
ContrastStageStrong(noisyData, config) ==
  IF ContrastApplied(config)
  THEN LET contrastMultiplier == JAdd(Num(Milli), config.microContrast)
       IN  Linear(noisyData, contrastMultiplier,
                  Num(-(128 * (contrastMultiplier.v - Milli))))
  ELSE noisyData

\* the contrast stage of processImage
ContrastStage(noisyData, config) ==
  IF ContrastApplied(config)
  THEN LET contrastMultiplier == JAdd(Num(Milli), JMul(config.microContrast, Num(100)))
       IN  Linear(noisyData, contrastMultiplier,
                  Num(-(128 * (contrastMultiplier.v - Milli))))
  ELSE noisyData

\* the reference applyNoise receives as pixelData (mem: the buffers allocated
\* so far, a reference is an index into mem)
PixelDataRef == 1

\* mutant: no copy, the result is the source buffer itself
BufferAlias(mem, src) == [mem |-> mem, ref |-> src]

\* Buffer.from(buffer): a newly allocated buffer holding a copy of the bytes
BufferFrom(mem, src) == [mem |-> Append(mem, mem[src]), ref |-> Len(mem) + 1]

\* the pixel loop of applyNoise run on the buffer a.ref of the memory a.mem
LoopOn(a, width, height, noiseFloat, ch, config) ==
  [mem |-> [a.mem EXCEPT ![a.ref] =
              Composite(a.mem[a.ref], width, height, noiseFloat, ch, config)],
   ref |-> a.ref]

\* applyNoise once both noise maps exist: output = Buffer.from(pixelData), the
\* pixel loop on output, return output
applyNoise(mem, pixelData, width, height, noiseFloat, ch, config) ==
  LoopOn(BufferFrom(mem, pixelData), width, height, noiseFloat, ch, config)

(***************************************************************************)
(* Inputs and bounds                                                       *)
(***************************************************************************)
\* number of images processed by one run at most
MaxBatch == 2
MaxArgs == 3
\* largest advance of the clock, in milliseconds
MaxClock == 1

\* largest distance, in thousandths, between two luminances compared in a row
MaxLumStep == 2

\* 634785765, the state whose successor is 0
SeedToZero == Wide(4069, 9686)

\* results of parseFloat for --intensity, --variance, --micro-contrast
IntensityArgs == {NaN, Num(0), Num(1500)}
VarianceArgs == {Num(0), Num(1500)}
MicroContrastArgs == {Num(0), Num(-100)}
\* results of parseInt for --seed
SeedArgs == {SeedNaN, SeedNeg, SeedInt(Wide(0, 0)), SeedInt(SeedToZero)}
PresetArgs == {"blur", "bogus"}

Options ==
  [o : {"--preset"}, a : PresetArgs]
    \cup [o : {"--intensity"}, a : IntensityArgs]
    \cup [o : {"--variance"}, a : VarianceArgs]
    \cup [o : {"--micro-contrast"}, a : MicroContrastArgs]
    \cup [o : {"--seed"}, a : SeedArgs]
    \cup [o : {"--no-luminance", "-x"}, a : {""}]

\* input image files: metadata (width, height) and what the raw decode returns
\* (info.channels and the buffer; an image with an alpha channel decodes to
\* four bytes per pixel)
Images ==
  { [width |-> 2, height |-> 1, channels |-> 3, data |-> <<0, 128, 255, 255, 0, 128>>],
    [width |-> 1, height |-> 1, channels |-> 4, data |-> <<10, 20, 30, 255>>],
    [width |-> 0, height |-> 1, channels |-> 3, data |-> <<>>] }

NoImage == [width |-> 0, height |-> 0, channels |-> 0, data |-> <<>>]
NoRng == [init |-> Wide(0, 0), seed |-> Wide(0, 0), hist |-> <<>>]
NoField == [rng |-> NoRng, data |-> <<>>]
NoChannels == [rng |-> NoRng, r |-> <<>>, g |-> <<>>, b |-> <<>>]
NoContrast == [microContrast |-> Num(0), data |-> <<>>, linear |-> FALSE, written |-> <<>>]

\* buffers handed to the contrast stage on its own
ContrastInputs == {<<0, 128, 255>>, <<100, 128, 200>>}

(***************************************************************************)
(* The program: CLI run over a batch of images                             *)
(***************************************************************************)
VARIABLES clock, pc, overrides, args, config, outputDir, inputPaths, outputPaths,
          file, cur,
          noiseMap, channelNoise, results, progress, exitCode, error,
          luminance, scale, contrast

vars == <<clock, pc, overrides, args, config, outputDir, inputPaths, outputPaths,
          file, cur,
          noiseMap, channelNoise, results, progress, exitCode, error,
          luminance, scale, contrast>>

Init ==
  /\ clock = 0
  /\ pc = "parse"
  /\ overrides = <<>>
  /\ args = <<>>
  /\ config = defaultConfig
  /\ outputDir = FALSE
  /\ inputPaths = <<>>
  /\ outputPaths = <<>>
  /\ file = NoImage
  /\ cur = NoImage
  /\ noiseMap = NoField
  /\ channelNoise = NoChannels
  /\ results = <<>>
  /\ progress = <<>>
  /\ exitCode = -1
  /\ error = "none"
  /\ luminance = <<Num(0), Num(0)>>
  /\ scale = <<getLuminanceNoiseScale(Num(0)), getLuminanceNoiseScale(Num(0))>>
  /\ contrast = NoContrast

\* mutant: a preset fills only the fields no earlier option has set
ApplyOptionKeepEarlier(cfg, opt) ==
  IF opt.o = "--preset" THEN Assign(getPreset(opt.a), cfg)
  ELSE IF opt.o = "--intensity" THEN Assign(cfg, [intensity |-> opt.a])
  ELSE IF opt.o = "--variance" THEN Assign(cfg, [variance |-> opt.a])
  ELSE IF opt.o = "--micro-contrast" THEN Assign(cfg, [microContrast |-> opt.a])
  ELSE IF opt.o = "--seed" THEN Assign(cfg, [seed |-> opt.a])
  ELSE IF opt.o = "--no-luminance" THEN Assign(cfg, [luminanceDependent |-> FALSE])
  ELSE cfg

\* the effect of one option on the partial config of parseArgs
ApplyOption(cfg, opt) ==
  IF opt.o = "--preset" THEN Assign(cfg, getPreset(opt.a))
  ELSE IF opt.o = "--intensity" THEN Assign(cfg, [intensity |-> opt.a])
  ELSE IF opt.o = "--variance" THEN Assign(cfg, [variance |-> opt.a])
  ELSE IF opt.o = "--micro-contrast" THEN Assign(cfg, [microContrast |-> opt.a])
  ELSE IF opt.o = "--seed" THEN Assign(cfg, [seed |-> opt.a])
  ELSE IF opt.o = "--no-luminance" THEN Assign(cfg, [luminanceDependent |-> FALSE])
  ELSE cfg

\* an option parseArgs ends the process on
OptionFatal(opt) ==
  \/ opt.o = "--preset" /\ opt.a \notin DOMAIN presets
  \/ opt.o \notin {"--preset", "--intensity", "--variance", "--micro-contrast",
                   "--seed", "--no-luminance"}

\* the message parseArgs prints before process.exit(1)
OptionError(opt) == IF opt.o = "--preset" THEN "Unknown preset" ELSE "Unknown option"

\* one iteration of the loop of parseArgs
ParseOption ==
  /\ pc = "parse"
  /\ \E opt \in Options :
       IF OptionFatal(opt)
       THEN /\ pc' = "exit"
            /\ exitCode' = 1
            /\ error' = OptionError(opt)
            /\ UNCHANGED overrides
       ELSE /\ overrides' = ApplyOption(overrides, opt)
            /\ UNCHANGED <<pc, exitCode, error>>
  /\ UNCHANGED <<clock, args, config, outputDir, inputPaths, outputPaths, file, cur, noiseMap,
                 channelNoise, results, progress, luminance, scale, contrast>>

\* mutant: the catch block reports the error and main goes on
MainNoExit ==
  /\ pc = "parse"
  /\ config' = createConfig(overrides)
  /\ pc' = "validated"
  /\ UNCHANGED <<clock, overrides, args, outputDir, inputPaths, outputPaths, file, cur, noiseMap,
                 channelNoise, results, progress, exitCode, error, luminance, scale, contrast>>

\* main after parseArgs: createConfig, validateConfig, exit(1) on failure
Main ==
  /\ pc = "parse"
  /\ config' = createConfig(overrides)
  /\ IF validateConfig(createConfig(overrides)) = "ok"
     THEN pc' = "validated" /\ UNCHANGED <<exitCode, error>>
     ELSE pc' = "exit" /\ exitCode' = 1 /\ error' = "Invalid configuration"
  /\ UNCHANGED <<clock, overrides, args, outputDir, inputPaths, outputPaths, file, cur, noiseMap,
                 channelNoise, results, progress, luminance, scale, contrast>>

\* main: await ensureDirectory(outputDir), exit(1) when it throws
EnsureDirectory ==
  /\ pc = "validated"
  /\ \/ /\ outputDir' = TRUE
        /\ pc' = "dir"
        /\ UNCHANGED <<exitCode, error>>
     \/ /\ pc' = "exit"
        /\ exitCode' = 1
        /\ error' = "Failed to create output directory"
        /\ UNCHANGED outputDir
  /\ UNCHANGED <<clock, overrides, args, config, inputPaths, outputPaths, file, cur, noiseMap,
                 channelNoise, results, progress, luminance, scale, contrast>>

\* the paths of a directory holding n image files
PathsOf(n) == [k \in 1..n |-> k]

\* outputPaths = imageFiles.map(path => getOutputPath(path, outputDir)): the
\* output path of an image is named after its input path
OutputPathsOf(paths) == [k \in 1..Len(paths) |-> paths[k]]

\* main: imageFiles = await getImageFiles(inputDir); exit(1) when it throws,
\* exit(0) when there is no image; else the input and output paths of the batch
GetImageFiles ==
  /\ pc = "dir"
  /\ \/ /\ pc' = "exit"
        /\ exitCode' = 1
        /\ error' = "Failed to read input directory"
        /\ UNCHANGED <<inputPaths, outputPaths>>
     \/ \E n \in 0..MaxBatch :
          /\ inputPaths' = PathsOf(n)
          /\ outputPaths' = OutputPathsOf(PathsOf(n))
          /\ IF n = 0 THEN pc' = "exit" /\ exitCode' = 0 ELSE pc' = "batch" /\ UNCHANGED exitCode
          /\ UNCHANGED error
  /\ UNCHANGED <<clock, overrides, args, config, outputDir, file, cur, noiseMap,
                 channelNoise, results, progress, luminance, scale, contrast>>

\* mutant: processImageBatch without the comparison of the lengths
StartBatchNoCheck ==
  /\ pc = "batch"
  /\ pc' = "ready"
  /\ UNCHANGED <<clock, overrides, args, config, outputDir, inputPaths, outputPaths, file, cur,
                 noiseMap, channelNoise, results, progress, exitCode, error,
                 luminance, scale, contrast>>

\* processImageBatch up to its loop: throws when inputPaths and outputPaths
\* differ in length (an error main turns into exit code 1)
StartBatch ==
  /\ pc = "batch"
  /\ IF Len(inputPaths) # Len(outputPaths)
     THEN /\ pc' = "exit"
          /\ exitCode' = 1
          /\ error' = "Input and output path arrays must have same length"
     ELSE /\ pc' = "ready"
          /\ UNCHANGED <<exitCode, error>>
  /\ UNCHANGED <<clock, overrides, args, config, outputDir, inputPaths, outputPaths, file, cur,
                 noiseMap, channelNoise, results, progress, luminance, scale, contrast>>

\* mutant: && in place of ||
InvalidDimensionsBoth(metadata) == metadata.width = 0 /\ metadata.height = 0

\* if (!metadata.width || !metadata.height)  (0 also stands for a missing value)
InvalidDimensions(metadata) == metadata.width = 0 \/ metadata.height = 0

\* processImageBatch: the next iteration of the loop calls processImage, which
\* opens the file, reads its metadata and throws on invalid dimensions; the
\* error leaves processImageBatch and main exits with 1
ReadMetadata ==
  /\ pc = "ready"
  /\ Len(results) < Len(inputPaths)
  /\ \E img \in Images :
       /\ file' = img
       /\ IF InvalidDimensions(img)
          THEN /\ pc' = "exit"
               /\ exitCode' = 1
               /\ error' = "Invalid image dimensions"
          ELSE /\ pc' = "meta"
               /\ UNCHANGED <<exitCode, error>>
  /\ UNCHANGED <<clock, overrides, args, config, outputDir, inputPaths, outputPaths, cur, noiseMap,
                 channelNoise, results, progress, luminance, scale, contrast>>

\* processImage: image.raw().toBuffer({ resolveWithObject: true })
Decode ==
  /\ pc = "meta"
  /\ cur' = file
  /\ pc' = "loaded"
  /\ UNCHANGED <<clock, overrides, args, config, outputDir, inputPaths, outputPaths, file, noiseMap,
                 channelNoise, results, progress, exitCode, error, luminance, scale, contrast>>

\* applyNoise: const noiseMap = generateSensorNoiseMap(width, height, config)
GenBase ==
  /\ pc = "loaded"
  /\ noiseMap' = generateSensorNoiseMap(cur.width, cur.height, config, clock)
  /\ pc' = "base"
  /\ UNCHANGED <<clock, overrides, args, config, outputDir, inputPaths, outputPaths, file, cur,
                 channelNoise, results, progress, exitCode, error, luminance, scale, contrast>>

\* applyNoise: const channelNoise = generateChannelNoise(width, height, config)
GenChannel ==
  /\ pc = "base"
  /\ channelNoise' = generateChannelNoise(cur.width, cur.height, config, clock)
  /\ pc' = "channel"
  /\ UNCHANGED <<clock, overrides, args, config, outputDir, inputPaths, outputPaths, file, cur,
                 noiseMap, results, progress, exitCode, error, luminance, scale, contrast>>

\* the ProcessingResult of one image, with what processImage wrote
\* (applied: the memory and the returned buffer of applyNoise)
ResultOf(path, image, base, channels, applied, cfg) ==
  [inputPath |-> path, image |-> image, noiseMap |-> base,
   channelNoise |-> channels,
   pixelData |-> applied.mem[PixelDataRef],
   outputRef |-> applied.ref,
   noisyData |-> applied.mem[applied.ref],
   linear |-> ContrastApplied(cfg),
   written |-> ContrastStage(applied.mem[applied.ref], cfg)]

\* mutant: results.unshift(result)
PushFront(list, result) == <<result>> \o list

\* results.push(result)
Push(list, result) == Append(list, result)

\* onProgress(i + 1, inputPaths.length, result)
OnProgress(list, current, total, path) ==
  Append(list, [current |-> current, total |-> total, inputPath |-> path])

\* applyNoise: the copy and the pixel loop; then the rest of processImage
\* (contrast stage, output file) and of the loop body of processImageBatch
CompositeAndWrite ==
  /\ pc = "channel"
  /\ results' = Push(results,
                     ResultOf(inputPaths[Len(results) + 1], cur, noiseMap, channelNoise,
                              applyNoise(<<cur.data>>, PixelDataRef, cur.width, cur.height,
                                         noiseMap.data, channelNoise, config),
                              config))
  /\ progress' = OnProgress(progress, Len(results) + 1, Len(inputPaths),
                            inputPaths[Len(results) + 1])
  /\ file' = NoImage
  /\ cur' = NoImage
  /\ noiseMap' = NoField
  /\ channelNoise' = NoChannels
  /\ pc' = "ready"
  /\ UNCHANGED <<clock, overrides, args, config, outputDir, inputPaths, outputPaths, exitCode, error,
                 luminance, scale, contrast>>

\* the loop of processImageBatch is over: main returns
Finish ==
  /\ pc = "ready"
  /\ Len(results) = Len(inputPaths)
  /\ pc' = "exit"
  /\ exitCode' = 0
  /\ UNCHANGED <<clock, overrides, args, config, outputDir, inputPaths, outputPaths, file, cur, noiseMap,
                 channelNoise, results, progress, error, luminance, scale, contrast>>

\* a millisecond passes before applyNoise constructs one of its two streams
Tick ==
  /\ pc \in {"loaded", "base"}
  /\ clock < MaxClock
  /\ clock' = clock + 1
  /\ UNCHANGED <<pc, overrides, args, config, outputDir, inputPaths, outputPaths, file, cur, noiseMap,
                 channelNoise, results, progress, exitCode, error, luminance, scale, contrast>>

Next ==
  \/ ParseOption
  \/ Main
  \/ EnsureDirectory
  \/ GetImageFiles
  \/ StartBatch
  \/ ReadMetadata
  \/ Decode
  \/ GenBase
  \/ GenChannel
  \/ CompositeAndWrite
  \/ Finish
  \/ Tick

Spec == Init /\ [][Next]_vars

(***************************************************************************)
(* parseArgs over a whole command line, then createConfig and              *)
(* validateConfig in main                                                  *)
(***************************************************************************)
\* the options of the command lines: those of the CLI run and a built-in preset
\* that differs from the defaults in every field
ArgOptions == Options \cup [o : {"--preset"}, a : {"flat"}]

\* the loop of parseArgs from argument i on: the partial config it returns, or
\* the message of the option it ends the process on
RECURSIVE ParseLoop(_, _, _)
ParseLoop(cfg, argv, i) ==
  IF i > Len(argv) THEN [config |-> cfg, error |-> "none"]
  ELSE IF OptionFatal(argv[i]) THEN [config |-> cfg, error |-> OptionError(argv[i])]
  ELSE ParseLoop(ApplyOption(cfg, argv[i]), argv, i + 1)

\* what parseArgs leaves: the partial config, or exit code 1
Parsed(argv, parsed) ==
  /\ args' = argv
  /\ overrides' = parsed.config
  /\ IF parsed.error = "none"
     THEN UNCHANGED <<pc, exitCode, error>>
     ELSE pc' = "exit" /\ exitCode' = 1 /\ error' = parsed.error

\* parseArgs on one command line
ParseArgs ==
  /\ pc = "parse"
  /\ args = <<>>
  /\ \E n \in 0..MaxArgs : \E argv \in [1..n -> ArgOptions] :
       Parsed(argv, ParseLoop(<<>>, argv, 1))
  /\ UNCHANGED <<clock, config, outputDir, inputPaths, outputPaths, file, cur, noiseMap,
                 channelNoise, results, progress, luminance, scale, contrast>>

NextArgs == ParseArgs \/ Main

SpecArgs == Init /\ [][NextArgs]_vars

(***************************************************************************)
(* processImageBatch called on its own, with any two lists of paths        *)
(***************************************************************************)
InitBatch ==
  /\ clock = 0
  /\ pc = "batch"
  /\ overrides = <<>>
  /\ args = <<>>
  /\ config = defaultConfig
  /\ outputDir = TRUE
  /\ \E n \in 0..MaxBatch : inputPaths = PathsOf(n)
  /\ \E n \in 0..MaxBatch : outputPaths = PathsOf(n)
  /\ file = NoImage
  /\ cur = NoImage
  /\ noiseMap = NoField
  /\ channelNoise = NoChannels
  /\ results = <<>>
  /\ progress = <<>>
  /\ exitCode = -1
  /\ error = "none"
  /\ luminance = <<Num(0), Num(0)>>
  /\ scale = <<getLuminanceNoiseScale(Num(0)), getLuminanceNoiseScale(Num(0))>>
  /\ contrast = NoContrast

NextBatch ==
  \/ StartBatch
  \/ ReadMetadata
  \/ Decode
  \/ GenBase
  \/ GenChannel
  \/ CompositeAndWrite
  \/ Finish
  \/ Tick

SpecBatch == InitBatch /\ [][NextBatch]_vars

(***************************************************************************)
(* The luminance scaler on its own: calls with rising luminances           *)
(***************************************************************************)
\* the largest luminance of a pixel (@param luminance [0-255])
LumMax == 255

\* the last two luminances and the last two results, after one more call
AfterCall(pair, x) == <<pair[2], x>>

\* getLuminanceNoiseScale is called with a luminance above the last one
ScaleCall ==
  /\ \E d \in 1..MaxLumStep :
       /\ luminance[2].v + d <= LumMax * Milli
       /\ luminance' = AfterCall(luminance, Num(luminance[2].v + d))
       /\ scale' = AfterCall(scale, getLuminanceNoiseScale(Num(luminance[2].v + d)))
  /\ UNCHANGED <<clock, pc, overrides, args, config, outputDir, inputPaths, outputPaths, file, cur,
                 noiseMap, channelNoise, results, progress, exitCode, error,
                 contrast>>

NextLum == ScaleCall

SpecLum == Init /\ [][NextLum]_vars

(***************************************************************************)
(* The contrast stage on its own: every microContrast of [0, 1]            *)
(***************************************************************************)
\* a config with the given microContrast
WithMicroContrast(cfg, mc) == [cfg EXCEPT !.microContrast = mc]

\* what the contrast stage of processImage does to a buffer under a config
StageOn(data, cfg) ==
  [microContrast |-> cfg.microContrast, data |-> data,
   linear |-> ContrastApplied(cfg), written |-> ContrastStage(data, cfg)]

\* the contrast stage runs once, on a buffer and with a microContrast of
\* [0, 1] (in thousandths)
ContrastCall ==
  /\ contrast = NoContrast
  /\ \E mc \in 0..Milli : \E data \in ContrastInputs :
       contrast' = StageOn(data, WithMicroContrast(config, Num(mc)))
  /\ UNCHANGED <<clock, pc, overrides, args, config, outputDir, inputPaths, outputPaths, file, cur,
                 noiseMap, channelNoise, results, progress, exitCode, error,
                 luminance, scale>>

NextContrast == ContrastCall

SpecContrast == Init /\ [][NextContrast]_vars

(***************************************************************************)
(* Properties                                                              *)
(***************************************************************************)
\* every random stream the run has constructed so far
Streams ==
  {noiseMap.rng, channelNoise.rng}
    \cup {results[i].noiseMap.rng : i \in 1..Len(results)}
    \cup {results[i].channelNoise.rng : i \in 1..Len(results)}

\* the streams that have been constructed (NoRng stands for "none yet")
LiveStreams == Streams \ {NoRng}

\* the state before the i-th next() call of a stream
StateBefore(rng, i) == IF i = 1 THEN rng.init ELSE rng.hist[i - 1]

SeedPresent == config.seed.k = "int"

SameDims(a, b) == a.width = b.width /\ a.height = b.height

\* the three channel fields of a result, by channel index
ChannelField(res, ch) ==
  IF ch = 0 THEN res.channelNoise.r
  ELSE IF ch = 1 THEN res.channelNoise.g
  ELSE res.channelNoise.b

\* original + contribution for byte 3 * i + ch of a result
SumOf(res, i, ch) ==
  PixelSum(res.image.data, i, ch, res.noiseMap.data, ChannelField(res, ch), config)

PixelsOf(res) == 0..(res.image.width * res.image.height - 1)

\* C1: with a seed present, any two calls of generateSensorNoiseMap for the same
\* dimensions (and the run's intensity and variance) return element-wise
\* identical base fields, whatever the clock read at either call.
C1_BaseFieldDeterministic ==
  SeedPresent =>
    \A i, j \in 1..Len(results) :
      SameDims(results[i].image, results[j].image)
        => results[i].noiseMap.data = results[j].noiseMap.data

\* C1 witness: two calls for the same dimensions with a seed present, made at
\* different clock readings (seed 0 leaves the channel stream time-based, so the
\* channel streams show the two readings), returned the same non-trivial field.
C1_Witness ==
  /\ SeedPresent
  /\ Len(results) = 2
  /\ SameDims(results[1].image, results[2].image)
  /\ results[1].channelNoise.rng.init # results[2].channelNoise.rng.init
  /\ \E n \in 1..Len(results[2].noiseMap.data) :
       /\ IsFinite(results[2].noiseMap.data[n])
       /\ results[2].noiseMap.data[n].v # 0

\* C2: every next() call replaces the state s by exactly
\* (s * 1664525 + 1013904223) mod 2^32, the new state is below 2^32 (the value
\* returned is in [0, 1)), and from seed 1 the first new state is 1015568748.
C2_NextIsExactLcg ==
  \A rng \in LiveStreams :
    /\ \A i \in 1..Len(rng.hist) :
         /\ rng.hist[i] = ExactNextState(StateBefore(rng, i))
         /\ IsUint32(rng.hist[i])
    /\ (rng.init = Wide(1, 0) /\ Len(rng.hist) > 0) => rng.hist[1] = Wide(22892, 15496)

\* C3: the state of a SeededRandom instance is an integer in [0, 2^32) in every
\* reachable state, including right after construction.
C3_StateIsUint32 ==
  \A rng \in LiveStreams :
    /\ IsUint32(rng.init)
    /\ IsUint32(rng.seed)
    /\ \A i \in 1..Len(rng.hist) : IsUint32(rng.hist[i])

\* C4: whenever config.seed is present (0 included), the channel stream is
\* seeded with config.seed + 1.
C4_ChannelSeedIsSeedPlusOne ==
  SeedPresent =>
    \A rng \in ({channelNoise.rng}
                  \cup {results[i].channelNoise.rng : i \in 1..Len(results)}) \ {NoRng} :
      rng.init = PlusSmall(config.seed.v, 1)

\* C5: with a seed present, two runs of applyNoise on the same pixel buffer give
\* byte-identical output buffers.
C5_SeededRunsReproducible ==
  SeedPresent =>
    \A i, j \in 1..Len(results) :
      results[i].image = results[j].image
        => results[i].noisyData = results[j].noisyData

\* C6: when config.seed is absent, the channel stream of an applyNoise call never
\* starts from the state the base stream of that call started from.
C6_UnseededStreamsIndependent ==
  /\ (config.seed.k = "undefined" /\ pc = "channel")
       => channelNoise.rng.init # noiseMap.rng.init
  /\ config.seed.k = "undefined"
       => \A i \in 1..Len(results) :
            results[i].channelNoise.rng.init # results[i].noiseMap.rng.init

\* C7: every output byte of applyNoise lies in 0..255; a sum original +
\* contribution above 255 (+Infinity included) gives exactly 255 and a sum below
\* 0 (-Infinity included) gives exactly 0; a NaN sum raises nothing.
C7_OutputSaturates ==
  \A n \in 1..Len(results) :
    LET res == results[n]
    IN  /\ Len(res.noisyData) = Len(res.image.data)
        /\ \A i \in PixelsOf(res) : \A ch \in 0..2 :
             LET sum  == SumOf(res, i, ch)
                 byte == res.noisyData[3 * i + ch + 1]
             IN  /\ byte \in 0..255
                 /\ JGt(sum, Num(255000)) => byte = 255
                 /\ JLt(sum, Num(0)) => byte = 0

\* C7 witness: an output buffer that holds a byte whose sum is not finite and
\* a byte whose finite sum exceeds 255 and was stored as 255.
C7_Witness ==
  \E n \in 1..Len(results) :
    /\ \E i \in PixelsOf(results[n]) : \E ch \in 0..2 :
         ~IsFinite(SumOf(results[n], i, ch))
    /\ \E i \in PixelsOf(results[n]) : \E ch \in 0..2 :
         /\ IsFinite(SumOf(results[n], i, ch))
         /\ SumOf(results[n], i, ch).v > 255000
         /\ results[n].noisyData[3 * i + ch + 1] = 255

\* C8: with intensity = 0, variance = 0 and microContrast = 0, for every seed the
\* output equals the input exactly.
C8_ZeroConfigIsIdentity ==
  (/\ config.intensity = Num(0)
   /\ config.variance = Num(0)
   /\ config.microContrast = Num(0)
   /\ SeedPresent)
    => \A n \in 1..Len(results) :
         /\ results[n].noisyData = results[n].image.data
         /\ results[n].written = results[n].image.data

\* a number inside [0, 1]
InUnitRange(a) == IsFinite(a) /\ a.v >= 0 /\ a.v <= Milli

\* the run has passed validateConfig
Validated ==
  /\ pc # "parse"
  /\ error \notin {"Unknown preset", "Unknown option", "Invalid configuration"}

\* C9: a config that passed validateConfig has intensity, variance and
\* microContrast inside [0, 1] and a seed that is absent or a non-negative integer.
C9_ValidatedConfigInRange ==
  Validated =>
    /\ InUnitRange(config.intensity)
    /\ InUnitRange(config.variance)
    /\ InUnitRange(config.microContrast)
    /\ config.seed.k \in {"undefined", "int"}

\* C10: a config that passed validateConfig has no smoothing value outside [0, 1].
C10_ValidatedSmoothingInRange ==
  Validated => (Smoothing(config) = Absent \/ InUnitRange(Smoothing(config)))

\* the errors raised while the configuration is built and validated
ConfigErrors == {"Unknown preset", "Unknown option", "Invalid configuration"}

\* no work has been done: no noise field, no image read, no output directory,
\* no output file
NothingDone ==
  /\ noiseMap = NoField
  /\ channelNoise = NoChannels
  /\ file = NoImage
  /\ cur = NoImage
  /\ ~outputDir
  /\ inputPaths = <<>>
  /\ results = <<>>

ZeroDimensionFile == file # NoImage /\ (file.width = 0 \/ file.height = 0)

\* C12: an image whose width or height is 0 is rejected with an error by
\* processImage before its pixel data is decoded and before any noise field is
\* generated, and nothing is written for it: no result ever holds such an image.
C12_ZeroDimensionRejected ==
  /\ ZeroDimensionFile =>
       /\ pc = "exit"
       /\ exitCode = 1
       /\ error = "Invalid image dimensions"
       /\ cur = NoImage
       /\ noiseMap = NoField
       /\ channelNoise = NoChannels
       /\ Len(results) < Len(inputPaths)
       /\ \A k \in 1..Len(results) : results[k].inputPath # inputPaths[Len(results) + 1]
  /\ \A k \in 1..Len(results) :
       results[k].image.width # 0 /\ results[k].image.height # 0

\* C12 witness: the second image of a batch has a zero dimension and was
\* rejected after the first one had been written
C12_Witness ==
  /\ ZeroDimensionFile
  /\ error = "Invalid image dimensions"
  /\ Len(results) = 1
  /\ Len(inputPaths) = 2

\* the bytes per pixel of the layout the pixel loop assumes (pixelIndex = i * 3)
RgbChannels == 3

\* the buffer of a decoded image has width x height x 3 bytes
MatchesRgbLayout(image) == Len(image.data) = image.width * image.height * RgbChannels

\* C13: a decoded buffer whose length is not width x height x 3 is rejected with
\* a dimension error: the compositor is never run on such a buffer and no result
\* is ever produced from one.
C13_MismatchedBufferRejected ==
  /\ pc = "channel" => MatchesRgbLayout(cur)
  /\ \A k \in 1..Len(results) : MatchesRgbLayout(results[k].image)

\* C14: applyNoise never modifies the input pixel buffer: after the call the
\* buffer passed as pixelData holds the bytes it held before, and the returned
\* buffer is another buffer, of the same length.
C14_InputBufferUntouched ==
  \A k \in 1..Len(results) :
    /\ results[k].pixelData = results[k].image.data
    /\ results[k].outputRef # PixelDataRef
    /\ Len(results[k].noisyData) = Len(results[k].image.data)

\* C14 witness: a call that changed bytes in the returned buffer and left the
\* input buffer as it was
C14_Witness ==
  \E k \in 1..Len(results) :
    /\ results[k].noisyData # results[k].image.data
    /\ results[k].pixelData = results[k].image.data
    /\ results[k].outputRef # PixelDataRef

\* C15: on luminances in [0, 255] getLuminanceNoiseScale never rises (a call
\* with a larger luminance returns at most what the call before returned), it
\* returns exactly 2.0 at luminance 0 and exactly 1.0 at luminance 255, and its
\* result lies in [0.5, 2.0].
C15_ScaleMonotoneAndBounded ==
  /\ luminance[1].v <= luminance[2].v
  /\ IsFinite(scale[1]) /\ IsFinite(scale[2])
  /\ scale[1].v >= scale[2].v
  /\ luminance[2].v = 0 => scale[2] = Num(2000)
  /\ luminance[2].v = LumMax * Milli => scale[2] = Num(1000)
  /\ scale[2].v >= 500 /\ scale[2].v <= 2000

\* C15 witness: the scale has fallen from 2.0 at luminance 0 to a value strictly
\* between 1.0 and 2.0, and falls again with the next luminance
C15_Witness ==
  /\ luminance[1].v > 0
  /\ luminance[1].v < luminance[2].v
  /\ scale[1].v < 2000
  /\ scale[1].v > scale[2].v
  /\ scale[2].v > 1000

\* C16: with microContrast = 0 the contrast stage is the identity: no linear
\* transform is applied and what is written equals the buffer applyNoise
\* returned, byte for byte; the linear transform is applied exactly when
\* microContrast > 0.
C16_ContrastStageIdentityAtZero ==
  \A k \in 1..Len(results) :
    /\ config.microContrast = Num(0)
         => (~results[k].linear /\ results[k].written = results[k].noisyData)
    /\ results[k].linear
         <=> (IsFinite(config.microContrast) /\ config.microContrast.v > 0)

\* C16 witness: an image processed with microContrast = 0 whose noise changed
\* some byte and whose written buffer is the compositor's buffer
C16_Witness ==
  /\ config.microContrast = Num(0)
  /\ \E k \in 1..Len(results) :
       /\ results[k].noisyData # results[k].image.data
       /\ results[k].written = results[k].noisyData
       /\ ~results[k].linear

\* the images of the batch processImage has been called for
Attempted == Len(results) + (IF error = "Invalid image dimensions" THEN 1 ELSE 0)

\* C17: an image for which processImage raises an error aborts that image only:
\* when the run is over, processImage has been called for every image of the
\* batch (those after the malformed one included), and the results of the
\* images before it are still there.
C17_MalformedImageAbortsOnlyItself ==
  (pc = "exit" /\ inputPaths # <<>>) =>
    /\ Attempted = Len(inputPaths)
    /\ \A k \in 1..Len(results) : results[k].inputPath = inputPaths[k]

\* C18: processImageBatch processes the images one after another in input
\* order: the image in progress is the one after the last completed image, the
\* k-th result is that of the k-th input path, onProgress has been called
\* exactly once for every completed image, with current = 1, 2, ... in this
\* order and total = the number of input paths, and a run that ends normally
\* has a result for every input path.
C18_BatchInInputOrder ==
  /\ Len(results) <= Len(inputPaths)
  /\ \A k \in 1..Len(results) : results[k].inputPath = inputPaths[k]
  /\ Len(progress) = Len(results)
  /\ \A k \in 1..Len(progress) :
       progress[k] = [current |-> k, total |-> Len(inputPaths),
                      inputPath |-> inputPaths[k]]
  /\ pc \in {"meta", "loaded", "base", "channel"} => Len(results) < Len(inputPaths)
  /\ (pc = "exit" /\ exitCode = 0) => Len(results) = Len(inputPaths)

\* C18 witness: a batch of two images has been processed to the end
C18_Witness ==
  /\ pc = "exit"
  /\ exitCode = 0
  /\ Len(inputPaths) = 2
  /\ Len(results) = 2
  /\ progress[2].current = 2
  /\ results[1].inputPath # results[2].inputPath

\* mean + z0 * stdDev for the uniforms s1 / 2^32 and s2 / 2^32
SampleOf(s1, s2, mean, stdDev) == JAdd(mean, JMul(BoxMuller(s1, s2), stdDev))

\* the number of pixels of the image in progress
PixelCount == cur.width * cur.height

\* C19: every gaussian() call takes exactly two next() steps, also when its
\* first uniform is exactly 0: the base field of N pixels advances the base
\* stream by exactly 4N steps when variance > 0 and by exactly 2N steps when
\* variance = 0, and then base[i] is the plain gaussian(0, intensity) sample of
\* draws 2i+1 and 2i+2 (variance multiplier exactly 1).
C19_BaseFieldDrawCount ==
  pc \in {"base", "channel"} =>
    /\ Len(noiseMap.data) = PixelCount
    /\ (IsFinite(config.variance) /\ config.variance.v > 0)
         => Len(noiseMap.rng.hist) = 4 * PixelCount
    /\ config.variance = Num(0) =>
         /\ Len(noiseMap.rng.hist) = 2 * PixelCount
         /\ \A i \in 0..(PixelCount - 1) :
              noiseMap.data[i + 1] =
                Fround(SampleOf(noiseMap.rng.hist[2 * i + 1], noiseMap.rng.hist[2 * i + 2],
                                Num(0), config.intensity))

\* C19 witness: a base field of two pixels generated with variance = 0 from a
\* stream whose first uniform was exactly 0, with four draws in all
C19_Witness ==
  /\ pc = "base"
  /\ config.variance = Num(0)
  /\ PixelCount = 2
  /\ Len(noiseMap.rng.hist) = 4
  /\ IsZero(noiseMap.rng.hist[1])

\* intensity x multiplier x 0.3 (multiplier in thousandths)
ChannelStdDev(multiplier) == JMul(JMul(config.intensity, Num(multiplier)), Num(300))

\* entry i of a channel field filled from draw number first + 1 on
ChannelEntry(first, i, multiplier) ==
  Fround(SampleOf(channelNoise.rng.hist[first + 2 * i + 1],
                  channelNoise.rng.hist[first + 2 * i + 2],
                  Num(0), ChannelStdDev(multiplier)))

\* C20: generateChannelNoise fills the three fields from one stream of its own
\* (6N draws in all, none of them taken from the base stream, which stays as
\* generateSensorNoiseMap left it), R completely, then G, then B: entry i of R
\* is the sample of draws 2i+1 and 2i+2, of G of draws 2N+2i+1 and 2N+2i+2, of B
\* of draws 4N+2i+1 and 4N+2i+2, scaled by intensity x multiplier x 0.3 with
\* the multipliers 1.0, 0.85 and 1.25.
C20_ChannelFieldsInOrder ==
  pc = "channel" =>
    /\ Len(channelNoise.rng.hist) = 6 * PixelCount
    /\ Len(noiseMap.rng.hist) \in {2 * PixelCount, 4 * PixelCount}
    /\ Len(channelNoise.r) = PixelCount
    /\ Len(channelNoise.g) = PixelCount
    /\ Len(channelNoise.b) = PixelCount
    /\ \A i \in 0..(PixelCount - 1) :
         /\ channelNoise.r[i + 1] = ChannelEntry(0, i, 1000)
         /\ channelNoise.g[i + 1] = ChannelEntry(2 * PixelCount, i, 850)
         /\ channelNoise.b[i + 1] = ChannelEntry(4 * PixelCount, i, 1250)

\* C20 witness: the three fields of a two-pixel image, filled with finite
\* samples that differ between R, G and B
C20_Witness ==
  /\ pc = "channel"
  /\ PixelCount = 2
  /\ \A i \in 1..2 : IsFinite(channelNoise.r[i]) /\ IsFinite(channelNoise.g[i])
                        /\ IsFinite(channelNoise.b[i])
  /\ channelNoise.r # channelNoise.g
  /\ channelNoise.g # channelNoise.b
  /\ channelNoise.r[1] # channelNoise.r[2]

\* byte ch of pixel i of the input buffer of a result, as a number
InputByte(res, i, ch) == Num(res.image.data[3 * i + ch + 1] * Milli)

\* the factor k of pixel i: scale(0.2126 r + 0.7152 g + 0.0722 b) of the input
\* pixel when luminanceDependent is true, 1 when it is false
FactorOf(res, i) ==
  IF config.luminanceDependent
  THEN getLuminanceNoiseScale(Luminance(InputByte(res, i, 0), InputByte(res, i, 1),
                                        InputByte(res, i, 2)))
  ELSE Num(Milli)

\* clamp(round(original + (base[i] x k + channel[i]) x 255), 0, 255) as the byte
\* the output buffer holds
ExpectedByte(res, i, ch) ==
  ToUint8(clamp(JAdd(InputByte(res, i, ch),
                     Times255(JAdd(JMul(res.noiseMap.data[i + 1], FactorOf(res, i)),
                                   ChannelField(res, ch)[i + 1]))),
                Num(0), Num(255000)))

\* the result the batch loop has just pushed: every result is the last one in
\* the state its push leaves, and results are never changed afterwards
Delivered == IF pc = "ready" /\ results # <<>> THEN {Len(results)} ELSE {}

\* C21: for every pixel i and channel c the output byte is
\* clamp(round(original_c + (base[i] x k + channel_c[i]) x 255), 0, 255), where k
\* is the luminance scale of the input pixel's own r, g, b when
\* luminanceDependent is true and exactly 1 when it is false; k multiplies the
\* base noise only.
C21_PixelFormula ==
  \A n \in Delivered :
    \A i \in PixelsOf(results[n]) : \A ch \in 0..2 :
      results[n].noisyData[3 * i + ch + 1] = ExpectedByte(results[n], i, ch)

\* C21 witness: a pixel composited with luminanceDependent true and a factor
\* above 1, whose base noise and channel noise are finite and not zero and
\* whose output byte differs from the input byte
C21_Witness ==
  /\ config.luminanceDependent
  /\ \E n \in 1..Len(results) : \E i \in PixelsOf(results[n]) : \E ch \in 0..2 :
       /\ FactorOf(results[n], i).v > Milli
       /\ IsFinite(results[n].noiseMap.data[i + 1])
       /\ results[n].noiseMap.data[i + 1].v # 0
       /\ IsFinite(ChannelField(results[n], ch)[i + 1])
       /\ ChannelField(results[n], ch)[i + 1].v # 0
       /\ results[n].noisyData[3 * i + ch + 1] # results[n].image.data[3 * i + ch + 1]

\* byte values given to the other pixels of an alternative input buffer
FillBytes == {0, 200}

\* input buffers of the same length that agree with data at pixel i
AgreeingAt(data, i) ==
  { [j \in 1..Len(data) |-> IF j \in (3 * i + 1)..(3 * i + 3) THEN data[j] ELSE v] :
      v \in FillBytes }

\* the three output bytes of pixel i of a buffer
PixelAt(buf, i) == <<buf[3 * i + 1], buf[3 * i + 2], buf[3 * i + 3]>>

\* the compositing pass of a result run on another input buffer, same noise
\* fields and config
Recomposite(res, data) ==
  Composite(data, res.image.width, res.image.height, res.noiseMap.data,
            res.channelNoise, config)

\* the iteration of pixel i alone, run on the untouched input buffer
PixelAlone(res, i) ==
  PixelLoop(res.image.data, i, i + 1, res.noiseMap.data, res.channelNoise, config)

\* C22: the compositing pass has no cross-pixel dependency: run on any input
\* buffer of the same dimensions that agrees at pixel i, with the same noise
\* fields and config, it gives the same output pixel i; and the output pixel i
\* is what the iteration of pixel i gives on the original input, although the
\* pass reads from the copy it writes to.
C22_NoCrossPixelDependency ==
  \A n \in Delivered : \A i \in PixelsOf(results[n]) :
    /\ \A data \in AgreeingAt(results[n].image.data, i) :
         PixelAt(Recomposite(results[n], data), i) = PixelAt(results[n].noisyData, i)
    /\ PixelAt(PixelAlone(results[n], i), i) = PixelAt(results[n].noisyData, i)

\* C22 witness: a two-pixel image with luminance-dependent noise, and an input
\* buffer that agrees at the second pixel only: the outputs agree at the second
\* pixel and differ at the first
C22_Witness ==
  /\ config.luminanceDependent
  /\ \E n \in 1..Len(results) :
       /\ results[n].image.width * results[n].image.height = 2
       /\ results[n].noisyData # results[n].image.data
       /\ \E data \in AgreeingAt(results[n].image.data, 1) :
            /\ PixelAt(Recomposite(results[n], data), 1) = PixelAt(results[n].noisyData, 1)
            /\ PixelAt(Recomposite(results[n], data), 0) # PixelAt(results[n].noisyData, 0)
            /\ PixelAt(results[n].noisyData, 1) # PixelAt(results[n].image.data, 1)

\* 1 + microContrast x 0.1
MultiplierOf(mc) == JAdd(Num(Milli), JMul(mc, Num(100)))

\* -128 x (multiplier - 1)
OffsetOf(multiplier) == JMul(Num(-128000), JAdd(multiplier, Num(-Milli)))

\* clamp(round(value x multiplier + offset), 0, 255) as a byte
LinearByte(value, multiplier) ==
  ToUint8(clamp(JAdd(JMul(Num(value * Milli), multiplier), OffsetOf(multiplier)),
                Num(0), Num(255000)))

\* C23: for every microContrast in [0, 1] the multiplier 1 + microContrast x 0.1
\* lies in [1, 1.1]; when microContrast > 0 the stage applies one linear
\* transform to every byte of the buffer the noise pass returned, with this
\* multiplier and the offset -128 x (multiplier - 1); the value 128 stays 128.
C23_ContrastTransform ==
  contrast # NoContrast =>
    /\ MultiplierOf(contrast.microContrast).v >= Milli
    /\ MultiplierOf(contrast.microContrast).v <= 1100
    /\ contrast.linear <=> contrast.microContrast.v > 0
    /\ Len(contrast.written) = Len(contrast.data)
    /\ contrast.linear =>
         \A j \in 1..Len(contrast.data) :
           contrast.written[j] =
             LinearByte(contrast.data[j], MultiplierOf(contrast.microContrast))
    /\ \A j \in 1..Len(contrast.data) :
         contrast.data[j] = 128 => contrast.written[j] = 128

\* C23 witness: the stage applied with microContrast = 1 (multiplier 1.1) to a
\* buffer holding 128, which left 128 in place and moved another byte
C23_Witness ==
  /\ contrast.linear
  /\ contrast.microContrast = Num(Milli)
  /\ \E j \in 1..Len(contrast.data) :
       contrast.data[j] = 128 /\ contrast.written[j] = 128
  /\ \E j \in 1..Len(contrast.data) : contrast.written[j] # contrast.data[j]

\* the four noise fields generated for an image
FieldsOf(res) ==
  <<res.noiseMap.data, res.channelNoise.r, res.channelNoise.g, res.channelNoise.b>>

\* C24: no stream state is carried from one image to the next: with a seed
\* present every stream of every image starts from a state fixed by the seed,
\* so two images of equal dimensions in one batch receive identical noise
\* fields (base and per-channel), whatever their positions in the batch.
C24_FreshStreamsPerImage ==
  SeedPresent =>
    \A i, j \in 1..Len(results) :
      /\ results[i].noiseMap.rng.init = results[j].noiseMap.rng.init
      /\ results[i].channelNoise.rng.init = results[j].channelNoise.rng.init
      /\ SameDims(results[i].image, results[j].image)
           => FieldsOf(results[i]) = FieldsOf(results[j])

\* C25: processImageBatch called with inputPaths and outputPaths of different
\* lengths raises an error before any image is processed: no image is read, no
\* noise field generated, no output written, and onProgress is never called.
C25_LengthMismatchRejected ==
  (Len(inputPaths) # Len(outputPaths) /\ pc # "batch") =>
    /\ pc = "exit"
    /\ error = "Input and output path arrays must have same length"
    /\ file = NoImage
    /\ cur = NoImage
    /\ noiseMap = NoField
    /\ channelNoise = NoChannels
    /\ results = <<>>
    /\ progress = <<>>

\* C25 witness: a call with two input paths and one output path has ended with
\* the error and nothing done
C25_Witness ==
  /\ Len(inputPaths) = 2
  /\ Len(outputPaths) = 1
  /\ pc = "exit"
  /\ error = "Input and output path arrays must have same length"
  /\ results = <<>>
  /\ progress = <<>>

\* the option sets field f: the explicit option of the field, or a preset that
\* defines it
SetsField(opt, f) ==
  \/ opt.o = "--preset" /\ f \in DOMAIN presets[opt.a]
  \/ opt.o = "--intensity" /\ f = "intensity"
  \/ opt.o = "--variance" /\ f = "variance"
  \/ opt.o = "--micro-contrast" /\ f = "microContrast"
  \/ opt.o = "--seed" /\ f = "seed"
  \/ opt.o = "--no-luminance" /\ f = "luminanceDependent"

\* the value the option gives field f
ValueSet(opt, f) ==
  IF opt.o = "--preset" THEN presets[opt.a][f]
  ELSE IF opt.o = "--no-luminance" THEN FALSE
  ELSE opt.a

\* the positions of the command line that set field f
Setting(f) == {i \in 1..Len(args) : SetsField(args[i], f)}

LastSetting(f) == CHOOSE i \in Setting(f) : \A j \in Setting(f) : j <= i

\* the defaults: the 'normal' preset with no seed
DefaultFields == {"intensity", "variance", "luminanceDependent", "microContrast", "seed"}
DefaultOf(f) == IF f = "seed" THEN NoSeed ELSE presets["normal"][f]

\* main has built the effective config of a command line parseArgs accepted
ConfigBuilt ==
  /\ pc # "parse"
  /\ error \notin {"Unknown preset", "Unknown option"}

\* C26: the effective config is the defaults (the 'normal' preset, no seed)
\* with the options applied left to right: every field has the value of the
\* last option that sets it, a preset counting as an option for each field it
\* defines (so it overwrites an earlier explicit option and is overridden by a
\* later one), and a field no option sets has its default.
C26_LastOptionWins ==
  ConfigBuilt =>
    \A f \in Fields :
      IF Setting(f) # {}
      THEN f \in DOMAIN config /\ config[f] = ValueSet(args[LastSetting(f)], f)
      ELSE IF f \in DefaultFields
           THEN f \in DOMAIN config /\ config[f] = DefaultOf(f)
           ELSE f \notin DOMAIN config

\* C26 witness: --intensity 0 --preset flat --variance 0 has given the preset's
\* intensity, the explicit variance, the preset's micro-contrast and no seed
C26_Witness ==
  /\ Len(args) = 3
  /\ args[1].o = "--intensity" /\ args[1].a = Num(0)
  /\ args[2].o = "--preset" /\ args[2].a = "flat"
  /\ args[3].o = "--variance" /\ args[3].a = Num(0)
  /\ pc = "validated"
  /\ config.intensity = Num(6)
  /\ config.variance = Num(0)
  /\ config.microContrast = Num(100)
  /\ config.luminanceDependent = FALSE
  /\ config.seed = NoSeed

====
